---- MODULE Spec2Model ----
(***************************************************************************)
(* YPBank operation records and their three codecs (binary, CSV, text).    *)
(*                                                                         *)
(* Text is a sequence of one-character strings; a binary stream is a       *)
(* sequence of bytes 0..255.  A Result is a record with ok = TRUE and a    *)
(* value, or ok = FALSE and a ParseError.                                  *)
(***************************************************************************)
EXTENDS Integers, Sequences, FiniteSets, TLC

\* ------------------------------------------------------------------ bounds

\* Longest description drawn for the description-centred inputs.
MaxDescLen == 2

\* Most records (rows, blocks) in one drawn input.
MaxRecords == 2

\* ------------------------------------------------------------ characters

QUOTE == "\""

BACKSLASH == "\\"

LF == "\n"

CR == "\r"

TAB == "\t"

SPACE == " "

COMMA == ","

COLON == ":"

HASH == "#"

\* A two-byte UTF-8 character (U+041D), the only non-ASCII one of the model.
CYR == "CYR_EN"

Digits == <<"0", "1", "2", "3", "4", "5", "6", "7", "8", "9">>

IsDigit(c) == \E i \in 1..10 : Digits[i] = c

DigitVal(c) == (CHOOSE i \in 1..10 : Digits[i] = c) - 1

\* char::is_whitespace on the characters of the model
IsWhitespace(c) == c \in {SPACE, TAB, LF, CR}

\* ------------------------------------------------------- string helpers

RECURSIVE Concat(_)
Concat(ss) == IF ss = <<>> THEN <<>> ELSE Head(ss) \o Concat(Tail(ss))

RECURSIVE TrimStart(_)
TrimStart(s) ==
    IF s # <<>> /\ IsWhitespace(Head(s)) THEN TrimStart(Tail(s)) ELSE s

RECURSIVE TrimEnd(_)
TrimEnd(s) ==
    IF s # <<>> /\ IsWhitespace(s[Len(s)])
    THEN TrimEnd(SubSeq(s, 1, Len(s) - 1))
    ELSE s

\* str::trim
Trim(s) == TrimEnd(TrimStart(s))

RECURSIVE TrimStartQuotes(_)
TrimStartQuotes(s) ==
    IF s # <<>> /\ Head(s) = QUOTE THEN TrimStartQuotes(Tail(s)) ELSE s

RECURSIVE TrimEndQuotes(_)
TrimEndQuotes(s) ==
    IF s # <<>> /\ s[Len(s)] = QUOTE
    THEN TrimEndQuotes(SubSeq(s, 1, Len(s) - 1))
    ELSE s

\* Strips one pair of surrounding quotes, when both are there.
StripOneQuoteLayer(s) ==
    IF Len(s) >= 2 /\ Head(s) = QUOTE /\ s[Len(s)] = QUOTE
    THEN SubSeq(s, 2, Len(s) - 1)
    ELSE s

\* str::trim_matches('"'): every leading and every trailing quote goes
TrimMatchesQuote(s) == TrimEndQuotes(TrimStartQuotes(s))

\* ------------------------------------------------------------- errors

ErrIo(what) == [kind |-> "Io", field |-> "", msg |-> <<what>>]

ErrInvalidFormat(msg) == [kind |-> "InvalidFormat", field |-> "", msg |-> msg]

ErrInvalidField(field, reason) ==
    [kind |-> "InvalidField", field |-> field, msg |-> <<reason>>]

ErrUnexpectedEof == [kind |-> "UnexpectedEof", field |-> "", msg |-> <<>>]

ErrInvalidMagic == [kind |-> "InvalidMagic", field |-> "", msg |-> <<>>]

\* impl Display for ParseError, as the parts of the message
Display(e) ==
    CASE e.kind = "Io" -> <<"IO error: ">> \o e.msg
      [] e.kind = "InvalidFormat" -> <<"Invalid format: ">> \o e.msg
      [] e.kind = "InvalidField" -> <<"Invalid field '", e.field, "': ">> \o e.msg
      [] e.kind = "UnexpectedEof" -> <<"Unexpected end of file">>
      [] e.kind = "InvalidMagic" -> <<"Invalid magic header">>
      [] OTHER -> <<"Invalid record size">>

Ok(v) == [ok |-> TRUE, val |-> v]

Err(e) == [ok |-> FALSE, err |-> e]

\* ---------------------------------------------------- the record model

OperationType == {"Deposit", "Transfer", "Withdrawal"}

OperationStatus == {"Success", "Failure", "Pending"}

L_DEPOSIT == <<"D","E","P","O","S","I","T">>

L_TRANSFER == <<"T","R","A","N","S","F","E","R">>

L_WITHDRAWAL == <<"W","I","T","H","D","R","A","W","A","L">>

L_SUCCESS == <<"S","U","C","C","E","S","S">>

L_FAILURE == <<"F","A","I","L","U","R","E">>

L_PENDING == <<"P","E","N","D","I","N","G">>

TypeAsStr(t) ==
    CASE t = "Deposit" -> L_DEPOSIT
      [] t = "Transfer" -> L_TRANSFER
      [] t = "Withdrawal" -> L_WITHDRAWAL

TypeToU8(t) ==
    CASE t = "Deposit" -> 0
      [] t = "Transfer" -> 1
      [] t = "Withdrawal" -> 2

TypeFromStr(s) ==
    CASE s = L_DEPOSIT -> Ok("Deposit")
      [] s = L_TRANSFER -> Ok("Transfer")
      [] s = L_WITHDRAWAL -> Ok("Withdrawal")
      [] OTHER -> Err(ErrInvalidField("TX_TYPE", "Unknown transaction type"))

\* A conversion that takes every unknown ordinal for the last variant.
TypeFromU8Coercing(b) ==
    CASE b = 0 -> Ok("Deposit")
      [] b = 1 -> Ok("Transfer")
      [] OTHER -> Ok("Withdrawal")

TypeFromU8(b) ==
    CASE b = 0 -> Ok("Deposit")
      [] b = 1 -> Ok("Transfer")
      [] b = 2 -> Ok("Withdrawal")
      [] OTHER -> Err(ErrInvalidField("TX_TYPE", "Unknown transaction type value"))

StatusAsStr(t) ==
    CASE t = "Success" -> L_SUCCESS
      [] t = "Failure" -> L_FAILURE
      [] t = "Pending" -> L_PENDING

StatusToU8(t) ==
    CASE t = "Success" -> 0
      [] t = "Failure" -> 1
      [] t = "Pending" -> 2

StatusFromStr(s) ==
    CASE s = L_SUCCESS -> Ok("Success")
      [] s = L_FAILURE -> Ok("Failure")
      [] s = L_PENDING -> Ok("Pending")
      [] OTHER -> Err(ErrInvalidField("STATUS", "Unknown status"))

StatusFromU8(b) ==
    CASE b = 0 -> Ok("Success")
      [] b = 1 -> Ok("Failure")
      [] b = 2 -> Ok("Pending")
      [] OTHER -> Err(ErrInvalidField("STATUS", "Unknown status value"))

\* struct Operation
Op(id, ty, from, to, amount, ts, st, d) ==
    [tx_id |-> id, tx_type |-> ty, from_user_id |-> from, to_user_id |-> to,
     amount |-> amount, timestamp |-> ts, status |-> st, description |-> d]

\* A slip in the Transfer arm: only one identifier is required to be non-zero.
ValidateLax(op) ==
    CASE op.tx_type = "Deposit" ->
           IF op.from_user_id # 0
           THEN Err(ErrInvalidField("FROM_USER_ID", "Must be 0 for DEPOSIT"))
           ELSE Ok(TRUE)
      [] op.tx_type = "Withdrawal" ->
           IF op.to_user_id # 0
           THEN Err(ErrInvalidField("TO_USER_ID", "Must be 0 for WITHDRAWAL"))
           ELSE Ok(TRUE)
      [] op.tx_type = "Transfer" ->
           IF op.from_user_id = 0 /\ op.to_user_id = 0
           THEN Err(ErrInvalidField("FROM_USER_ID/TO_USER_ID", "Cannot be 0 for TRANSFER"))
           ELSE Ok(TRUE)

\* Operation::validate
Validate(op) ==
    CASE op.tx_type = "Deposit" ->
           IF op.from_user_id # 0
           THEN Err(ErrInvalidField("FROM_USER_ID", "Must be 0 for DEPOSIT"))
           ELSE Ok(TRUE)
      [] op.tx_type = "Withdrawal" ->
           IF op.to_user_id # 0
           THEN Err(ErrInvalidField("TO_USER_ID", "Must be 0 for WITHDRAWAL"))
           ELSE Ok(TRUE)
      [] op.tx_type = "Transfer" ->
           IF op.from_user_id = 0 \/ op.to_user_id = 0
           THEN Err(ErrInvalidField("FROM_USER_ID/TO_USER_ID", "Cannot be 0 for TRANSFER"))
           ELSE Ok(TRUE)

\* Equality on every field, as a derived PartialEq would compare.
OpEqAllFields(a, b) == a = b

\* impl PartialEq (and the matching impl Hash) for Operation: tx_id alone
OpEq(a, b) == a.tx_id = b.tx_id

\* An insert that replaces the stored element by the new, equal one.
HashSetInsertReplacing(set, op) ==
    {o \in set : ~OpEq(o, op)} \cup {op}

\* HashSet::insert: a value equal to a stored one leaves the set unmodified
HashSetInsert(set, op) ==
    IF \E o \in set : OpEq(o, op) THEN set ELSE set \cup {op}

\* A difference that compares whole records.
HashSetDifferenceAllFields(a, b) == a \ b

\* HashSet::difference: the elements of a with no equal element in b
HashSetDifference(a, b) == {o \in a : ~\E p \in b : OpEq(o, p)}

\* ------------------------------------------------------- the binary codec

\* const MAGIC: 'YPBN'
MAGIC == <<89, 80, 66, 78>>

\* The UTF-8 bytes of one character (str::as_bytes, character by character).
Utf8Bytes(c) ==
    CASE c = "a" -> <<97>>
      [] c = "n" -> <<110>>
      [] c = QUOTE -> <<34>>
      [] c = BACKSLASH -> <<92>>
      [] c = SPACE -> <<32>>
      [] c = COMMA -> <<44>>
      [] c = LF -> <<10>>
      [] c = CR -> <<13>>
      [] c = TAB -> <<9>>
      [] c = "t" -> <<116>>
      [] c = "r" -> <<114>>
      [] c = CYR -> <<208, 157>>

\* The characters the binary streams of the model are written from.
Utf8Chars == {"a", "n", "t", "r", QUOTE, BACKSLASH, SPACE, COMMA, LF, CR, TAB, CYR}

RECURSIVE AsBytes(_)
\* String::as_bytes
AsBytes(s) == IF s = <<>> THEN <<>> ELSE Utf8Bytes(Head(s)) \o AsBytes(Tail(s))

RECURSIVE FromUtf8(_)
\* String::from_utf8 on the byte sequences of the model's characters; a byte that
\* starts no such character (0xFF never appears in UTF-8) is an error.
FromUtf8(bytes) ==
    IF bytes = <<>> THEN Ok(<<>>)
    ELSE LET hit == {c \in Utf8Chars :
                        /\ Len(Utf8Bytes(c)) <= Len(bytes)
                        /\ SubSeq(bytes, 1, Len(Utf8Bytes(c))) = Utf8Bytes(c)}
         IN  IF hit = {}
             THEN Err(ErrInvalidField("DESCRIPTION", "Invalid UTF-8"))
             ELSE LET c == CHOOSE x \in hit : TRUE
                      rest == FromUtf8(SubSeq(bytes, Len(Utf8Bytes(c)) + 1, Len(bytes)))
                  IN  IF rest.ok THEN Ok(<<c>> \o rest.val) ELSE rest

RECURSIVE ToBeBytes(_, _)
\* uN::to_be_bytes of a non-negative value, w bytes wide
ToBeBytes(n, w) ==
    IF w = 0 THEN <<>> ELSE ToBeBytes(n \div 256, w - 1) \o <<n % 256>>

RECURSIVE FromBeBytes(_)
\* uN::from_be_bytes
FromBeBytes(bytes) ==
    IF bytes = <<>> THEN 0
    ELSE FromBeBytes(SubSeq(bytes, 1, Len(bytes) - 1)) * 256 + bytes[Len(bytes)]

\* i64::to_be_bytes: two's complement, a negative n as the complement of -n - 1
I64ToBeBytes(n) ==
    IF n >= 0 THEN ToBeBytes(n, 8)
    ELSE [i \in 1..8 |-> 255 - ToBeBytes(-n - 1, 8)[i]]

\* i64::from_be_bytes
I64FromBeBytes(bytes) ==
    IF bytes[1] < 128 THEN FromBeBytes(bytes)
    ELSE -FromBeBytes([i \in 1..8 |-> 255 - bytes[i]]) - 1

\* Read::read_exact of n bytes at pos: the bytes, or the UnexpectedEof io::Error
ReadExact(stream, pos, n) ==
    IF pos + n - 1 > Len(stream)
    THEN Err(ErrIo("UnexpectedEof"))
    ELSE Ok(SubSeq(stream, pos, pos + n - 1))

RECURSIVE UnescapeString(_)
\* unescape_string
UnescapeString(s) ==
    IF s = <<>> THEN <<>>
    ELSE IF Head(s) = BACKSLASH /\ Len(s) >= 2
         THEN CASE s[2] = QUOTE -> <<QUOTE>> \o UnescapeString(SubSeq(s, 3, Len(s)))
                [] s[2] = BACKSLASH -> <<BACKSLASH>> \o UnescapeString(SubSeq(s, 3, Len(s)))
                [] s[2] = "n" -> <<LF>> \o UnescapeString(SubSeq(s, 3, Len(s)))
                [] s[2] = "t" -> <<TAB>> \o UnescapeString(SubSeq(s, 3, Len(s)))
                [] s[2] = "r" -> <<CR>> \o UnescapeString(SubSeq(s, 3, Len(s)))
                [] OTHER -> <<BACKSLASH>> \o UnescapeString(Tail(s))
         ELSE <<Head(s)>> \o UnescapeString(Tail(s))

\* A normalization that strips every surrounding quote, paired or not.
NormalizeDescriptionTrimQuotes(s) == UnescapeString(TrimMatchesQuote(Trim(s)))

\* A normalization that unescapes before it looks for the surrounding quotes.
NormalizeDescriptionUnescapeFirst(s) ==
    LET unescaped == UnescapeString(Trim(s))
    IN  IF /\ Len(unescaped) >= 2
           /\ Head(unescaped) = QUOTE
           /\ unescaped[Len(unescaped)] = QUOTE
        THEN SubSeq(unescaped, 2, Len(unescaped) - 1)
        ELSE unescaped

\* normalize_description
NormalizeDescription(s) ==
    LET trimmed == Trim(s)
        unquoted == IF /\ trimmed # <<>>
                       /\ Head(trimmed) = QUOTE
                       /\ trimmed[Len(trimmed)] = QUOTE
                       /\ Len(AsBytes(trimmed)) >= 2
                    THEN SubSeq(trimmed, 2, Len(trimmed) - 1)
                    ELSE trimmed
    IN  UnescapeString(unquoted)

\* parse_operation on the reader at pos: the record and the position after it
ParseOperation(stream, pos) ==
    LET magic == ReadExact(stream, pos, 4)
        size == ReadExact(stream, pos + 4, 4)
        txid == ReadExact(stream, pos + 8, 8)
        tbuf == ReadExact(stream, pos + 16, 1)
        ty == TypeFromU8(tbuf.val[1])
        from == ReadExact(stream, pos + 17, 8)
        to == ReadExact(stream, pos + 25, 8)
        amount == ReadExact(stream, pos + 33, 8)
        ts == ReadExact(stream, pos + 41, 8)
        sbuf == ReadExact(stream, pos + 49, 1)
        st == StatusFromU8(sbuf.val[1])
        lenbuf == ReadExact(stream, pos + 50, 4)
        desc_len == FromBeBytes(lenbuf.val)
        desc_bytes == ReadExact(stream, pos + 54, desc_len)
        raw_description == FromUtf8(desc_bytes.val)
        operation == Op(FromBeBytes(txid.val), ty.val, FromBeBytes(from.val),
                        FromBeBytes(to.val), I64FromBeBytes(amount.val),
                        FromBeBytes(ts.val), st.val,
                        NormalizeDescription(raw_description.val))
    IN  CASE ~magic.ok -> magic
          [] magic.val # MAGIC -> Err(ErrInvalidMagic)
          [] ~size.ok -> size
          [] ~txid.ok -> txid
          [] ~tbuf.ok -> tbuf
          [] ~ty.ok -> ty
          [] ~from.ok -> from
          [] ~to.ok -> to
          [] ~amount.ok -> amount
          [] ~ts.ok -> ts
          [] ~sbuf.ok -> sbuf
          [] ~st.ok -> st
          [] ~lenbuf.ok -> lenbuf
          [] ~desc_bytes.ok -> desc_bytes
          [] ~raw_description.ok -> raw_description
          [] ~Validate(operation).ok -> Validate(operation)
          [] OTHER -> Ok([op |-> operation, next |-> pos + 54 + desc_len])

\* A u32 is kept as two 16-bit halves, [hi, lo], worth hi * Half + lo; a usize
\* is kept the same way with a hi that may exceed a half.
Half == 65536

\* The halves of a length the model can count.
Halves(n) == [hi |-> n \div Half, lo |-> n % Half]

\* len as u32: the low 32 bits
AsU32(len) == [hi |-> len.hi % Half, lo |-> len.lo]

\* u32 + u32 in a build without overflow checks: the sum modulo 2^32
WrappingAdd(a, n) ==
    LET lo == a.lo + n
        hi == a.hi + (lo \div Half)
    IN  [hi |-> hi % Half, lo |-> lo % Half]

\* u32 + u32 exceeds u32::MAX: a build with overflow checks panics here
Overflows(a, n) == a.hi + ((a.lo + n) \div Half) >= Half

\* u32::to_be_bytes
U32ToBeBytes(a) == ToBeBytes(a.hi, 2) \o ToBeBytes(a.lo, 2)

\* A record_size that leaves the description out.
RecordSizeFixedOnly(desc_len) == Halves(8 + 1 + 8 + 8 + 8 + 8 + 1 + 4)

\* write_operation's record_size, as the wrapping sum
RecordSize(desc_len) == WrappingAdd(desc_len, 8 + 1 + 8 + 8 + 8 + 8 + 1 + 4)

\* write_operation's record_size overflows
RecordSizeOverflows(desc_len) == Overflows(desc_len, 8 + 1 + 8 + 8 + 8 + 8 + 1 + 4)

\* The bytes write_operation emits after validation.
EncodeOperation(operation) ==
    LET desc_bytes == AsBytes(operation.description)
        desc_len == AsU32(Halves(Len(desc_bytes)))
    IN  MAGIC
        \o U32ToBeBytes(RecordSize(desc_len))
        \o ToBeBytes(operation.tx_id, 8)
        \o <<TypeToU8(operation.tx_type)>>
        \o ToBeBytes(operation.from_user_id, 8)
        \o ToBeBytes(operation.to_user_id, 8)
        \o I64ToBeBytes(operation.amount)
        \o ToBeBytes(operation.timestamp, 8)
        \o <<StatusToU8(operation.status)>>
        \o U32ToBeBytes(desc_len)
        \o desc_bytes

\* A write_operation that serialises whatever it is given.
WriteOperationUnchecked(operation) == Ok(EncodeOperation(operation))

\* bin_format::write_operation: the bytes appended to the writer, or the error
WriteOperation(operation) ==
    IF ~Validate(operation).ok THEN Validate(operation)
    ELSE Ok(EncodeOperation(operation))

\* --------------------------------------------------- decimal integers

RECURSIVE ToDec(_)
\* Display for an unsigned integer
ToDec(n) == IF n < 10 THEN <<Digits[n + 1]>> ELSE ToDec(n \div 10) \o <<Digits[(n % 10) + 1]>>

\* Display for i64
I64ToDec(n) == IF n < 0 THEN <<"-">> \o ToDec(-n) ELSE ToDec(n)

RECURSIVE DecValue(_)
DecValue(ds) ==
    IF ds = <<>> THEN 0 ELSE DecValue(SubSeq(ds, 1, Len(ds) - 1)) * 10 + DigitVal(ds[Len(ds)])

RECURSIVE StripZeros(_)
StripZeros(ds) ==
    IF Len(ds) > 1 /\ Head(ds) = "0" THEN StripZeros(Tail(ds)) ELSE ds

\* u64::MAX, i64::MAX and -i64::MIN in decimal
U64MaxDec == <<"1","8","4","4","6","7","4","4","0","7","3","7","0","9","5","5","1","6","1","5">>

I64MaxDec == <<"9","2","2","3","3","7","2","0","3","6","8","5","4","7","7","5","8","0","7">>

I64MinAbsDec == <<"9","2","2","3","3","7","2","0","3","6","8","5","4","7","7","5","8","0","8">>

\* Whether the digit string ds denotes a number above the one limit denotes.
ExceedsDec(ds, limit) ==
    LET d == StripZeros(ds)
    IN  \/ Len(d) > Len(limit)
        \/ /\ Len(d) = Len(limit)
           /\ \E i \in 1..Len(d) :
                /\ \A j \in 1..(i - 1) : d[j] = limit[j]
                /\ DigitVal(d[i]) > DigitVal(limit[i])

\* str::parse::<u64> (signed = FALSE) and str::parse::<i64> (signed = TRUE): the
\* value, or the ParseIntError's message.  A leading + is accepted by both, a
\* leading - by the signed type alone; a sign with no digit is an invalid digit.
ParseInt(s, signed) ==
    LET neg == signed /\ s # <<>> /\ Head(s) = "-"
        digits == IF s # <<>> /\ (Head(s) = "+" \/ neg) THEN Tail(s) ELSE s
        limit == IF ~signed THEN U64MaxDec ELSE IF neg THEN I64MinAbsDec ELSE I64MaxDec
    IN  CASE s = <<>> -> Err("cannot parse integer from empty string")
          [] digits = <<>> -> Err("invalid digit found in string")
          [] \E i \in 1..Len(digits) : ~IsDigit(digits[i]) ->
               Err("invalid digit found in string")
          [] ExceedsDec(digits, limit) ->
               Err(IF neg THEN "number too small to fit in target type"
                          ELSE "number too large to fit in target type")
          [] OTHER -> Ok(IF neg THEN -DecValue(digits) ELSE DecValue(digits))

\* parse::<T>().map_err(|e| InvalidField { field, reason: e.to_string() })
ParseField(s, signed, field) ==
    LET r == ParseInt(s, signed)
    IN  IF r.ok THEN r ELSE Err(ErrInvalidField(field, r.err))

\* ---------------------------------------------------------- lines of text

\* The segments read_line yields: each ends at a \n (left out here), the last at
\* the end of the text when something follows the last \n.
SplitLf(s) ==
    LET at == {i \in 1..Len(s) : s[i] = LF}
        nth(k) == IF k = 0 THEN 0
                  ELSE CHOOSE p \in at : Cardinality({q \in at : q < p}) = k - 1
        n == Cardinality(at)
        count == IF s # <<>> /\ s[Len(s)] # LF THEN n + 1 ELSE n
    IN  [k \in 1..count |->
            SubSeq(s, nth(k - 1) + 1, IF k > n THEN Len(s) ELSE nth(k) - 1)]

\* BufRead::lines: split at each \n, a final line needs none, and one \r before
\* the \n is dropped with it
Lines(s) ==
    LET raw == SplitLf(s)
        terminated(i) == i < Len(raw) \/ (s # <<>> /\ s[Len(s)] = LF)
    IN  [i \in 1..Len(raw) |->
            IF terminated(i) /\ raw[i] # <<>> /\ raw[i][Len(raw[i])] = CR
            THEN SubSeq(raw[i], 1, Len(raw[i]) - 1)
            ELSE raw[i]]

\* ---------------------------------------------------------- the CSV codec

\* const HEADER
HEADER == <<"T","X","_","I","D",",","T","X","_","T","Y","P","E",",","F","R","O","M","_","U","S","E","R","_","I","D",",","T","O","_","U","S","E","R","_","I","D",",","A","M","O","U","N","T",",","T","I","M","E","S","T","A","M","P",",","S","T","A","T","U","S",",","D","E","S","C","R","I","P","T","I","O","N">>

RECURSIVE SplitCsvScan(_, _, _)
SplitCsvScan(line, cur, in_quotes) ==
    IF line = <<>> THEN <<cur>>
    ELSE IF Head(line) = QUOTE
         THEN SplitCsvScan(Tail(line), cur \o <<QUOTE>>, ~in_quotes)
    ELSE IF Head(line) = COMMA /\ ~in_quotes
         THEN <<cur>> \o SplitCsvScan(Tail(line), <<>>, in_quotes)
    ELSE SplitCsvScan(Tail(line), cur \o <<Head(line)>>, in_quotes)

RECURSIVE SplitEveryComma(_)
\* A split at every comma, quoted or not.
SplitEveryComma(line) ==
    IF \A i \in 1..Len(line) : line[i] # COMMA THEN <<line>>
    ELSE LET i == CHOOSE x \in 1..Len(line) :
                     line[x] = COMMA /\ \A y \in 1..(x - 1) : line[y] # COMMA
         IN  <<SubSeq(line, 1, i - 1)>> \o SplitEveryComma(SubSeq(line, i + 1, Len(line)))

\* split_csv_line
SplitCsvLine(line) == SplitCsvScan(line, <<>>, FALSE)

\* parts[7].trim_matches('"')
CsvDescription(field) == TrimMatchesQuote(field)

\* csv_format::parse_line
CsvParseLine(line) ==
    LET parts == SplitCsvLine(line)
        tx_id == ParseField(parts[1], FALSE, "TX_ID")
        tx_type == TypeFromStr(parts[2])
        from == ParseField(parts[3], FALSE, "FROM_USER_ID")
        to == ParseField(parts[4], FALSE, "TO_USER_ID")
        amount == ParseField(parts[5], TRUE, "AMOUNT")
        ts == ParseField(parts[6], FALSE, "TIMESTAMP")
        status == StatusFromStr(parts[7])
    IN  CASE Len(parts) # 8 ->
               Err(ErrInvalidFormat(<<"Expected 8 fields, got ", ToString(Len(parts))>>))
          [] ~tx_id.ok -> tx_id
          [] ~tx_type.ok -> tx_type
          [] ~from.ok -> from
          [] ~to.ok -> to
          [] ~amount.ok -> amount
          [] ~ts.ok -> ts
          [] ~status.ok -> status
          [] OTHER -> Ok(Op(tx_id.val, tx_type.val, from.val, to.val, amount.val,
                            ts.val, status.val, CsvDescription(parts[8])))

\* .map_err(|e| InvalidFormat(format!("Line {}: {}", line_num + 2, e))), for
\* the row that is line i of the input
CsvRowError(i, e) == ErrInvalidFormat(<<"Line ", ToString(i), ": ">> \o Display(e))

RECURSIVE CsvRowsSkipping(_, _, _)
\* A loop that drops a row it cannot parse or validate and goes on.
CsvRowsSkipping(lines, i, operations) ==
    IF i > Len(lines) THEN Ok(operations)
    ELSE LET r == CsvParseLine(lines[i])
         IN  IF Trim(lines[i]) = <<>> \/ ~r.ok \/ ~Validate(r.val).ok
             THEN CsvRowsSkipping(lines, i + 1, operations)
             ELSE CsvRowsSkipping(lines, i + 1, HashSetInsert(operations, r.val))

RECURSIVE CsvRows(_, _, _)
\* The loop of csv parse_all over the lines after the header, from line i on.
CsvRows(lines, i, operations) ==
    IF i > Len(lines) THEN Ok(operations)
    ELSE IF Trim(lines[i]) = <<>> THEN CsvRows(lines, i + 1, operations)
    ELSE LET r == CsvParseLine(lines[i])
         IN  CASE ~r.ok -> Err(CsvRowError(i, r.err))
               [] ~Validate(r.val).ok -> Validate(r.val)
               [] OTHER -> CsvRows(lines, i + 1, HashSetInsert(operations, r.val))

\* A parse_all that reads the first line and never compares it.
CsvParseAllAnyHeader(text) ==
    LET lines == Lines(text)
    IN  IF lines = <<>> THEN Err(ErrUnexpectedEof) ELSE CsvRows(lines, 2, {})

\* csv_format::parse_all
CsvParseAll(text) ==
    LET lines == Lines(text)
    IN  CASE lines = <<>> -> Err(ErrUnexpectedEof)
          [] lines[1] # HEADER ->
               Err(ErrInvalidFormat(<<"Invalid CSV header. Expected: ", "HEADER">>))
          [] OTHER -> CsvRows(lines, 2, {})

\* What a write leaves behind: the result and the text or bytes emitted so far.
Written(result, out) == [res |-> result, out |-> out]

\* One row of csv write_all.
CsvRow(op) ==
    ToDec(op.tx_id) \o <<COMMA>> \o TypeAsStr(op.tx_type) \o <<COMMA>>
    \o ToDec(op.from_user_id) \o <<COMMA>> \o ToDec(op.to_user_id) \o <<COMMA>>
    \o I64ToDec(op.amount) \o <<COMMA>> \o ToDec(op.timestamp) \o <<COMMA>>
    \o StatusAsStr(op.status) \o <<COMMA, QUOTE>> \o op.description \o <<QUOTE, LF>>

RECURSIVE CsvWriteRows(_, _)
CsvWriteRows(order, out) ==
    IF order = <<>> THEN Written(Ok(TRUE), out)
    ELSE IF ~Validate(Head(order)).ok THEN Written(Validate(Head(order)), out)
    ELSE CsvWriteRows(Tail(order), out \o CsvRow(Head(order)))

\* csv_format::write_all, the set iterated in the given order
CsvWriteAll(order) == CsvWriteRows(order, HEADER \o <<LF>>)

\* --------------------------------------------------------- the text codec

K_TX_ID == <<"T","X","_","I","D">>

K_TX_TYPE == <<"T","X","_","T","Y","P","E">>

K_FROM_USER_ID == <<"F","R","O","M","_","U","S","E","R","_","I","D">>

K_TO_USER_ID == <<"T","O","_","U","S","E","R","_","I","D">>

K_AMOUNT == <<"A","M","O","U","N","T">>

K_TIMESTAMP == <<"T","I","M","E","S","T","A","M","P">>

K_STATUS == <<"S","T","A","T","U","S">>

K_DESCRIPTION == <<"D","E","S","C","R","I","P","T","I","O","N">>

\* HashMap::new, HashMap::insert (a later value of a key replaces the earlier)
\* and HashMap::get, the map a function from the keys it holds
EmptyMap == [k \in {} |-> <<>>]

MapInsert(map, k, v) ==
    [x \in (DOMAIN map) \cup {k} |-> IF x = k THEN v ELSE map[x]]

MapHas(map, k) == k \in DOMAIN map

\* HashMap::is_empty
IsEmptyMap(map) == DOMAIN map = {}

\* str::split_once(':') then trim of both sides: the pair, or no pair
ParseKeyValue(line) ==
    IF \E i \in 1..Len(line) : line[i] = COLON
    THEN LET i == CHOOSE x \in 1..Len(line) :
                     line[x] = COLON /\ \A y \in 1..(x - 1) : line[y] # COLON
         IN  Ok(<<Trim(SubSeq(line, 1, i - 1)), Trim(SubSeq(line, i + 1, Len(line)))>>)
    ELSE Err("no colon")

\* A lookup whose error does not say which key is missing.
MapGetUnnamed(record, key, name) ==
    IF MapHas(record, key) THEN Ok(record[key])
    ELSE Err(ErrInvalidFormat(<<"Missing key">>))

\* record.get(key).ok_or_else(|| InvalidFormat("Missing <key>"))
MapGet(record, key, name) ==
    IF MapHas(record, key) THEN Ok(record[key])
    ELSE Err(ErrInvalidFormat(<<"Missing ", name>>))

\* text_format::parse_record
TxtParseRecord(record) ==
    LET g_id == MapGet(record, K_TX_ID, "TX_ID")
        tx_id == ParseField(g_id.val, FALSE, "TX_ID")
        g_ty == MapGet(record, K_TX_TYPE, "TX_TYPE")
        tx_type == TypeFromStr(g_ty.val)
        g_from == MapGet(record, K_FROM_USER_ID, "FROM_USER_ID")
        from == ParseField(g_from.val, FALSE, "FROM_USER_ID")
        g_to == MapGet(record, K_TO_USER_ID, "TO_USER_ID")
        to == ParseField(g_to.val, FALSE, "TO_USER_ID")
        g_am == MapGet(record, K_AMOUNT, "AMOUNT")
        amount == ParseField(g_am.val, TRUE, "AMOUNT")
        g_ts == MapGet(record, K_TIMESTAMP, "TIMESTAMP")
        ts == ParseField(g_ts.val, FALSE, "TIMESTAMP")
        g_st == MapGet(record, K_STATUS, "STATUS")
        status == StatusFromStr(g_st.val)
        g_d == MapGet(record, K_DESCRIPTION, "DESCRIPTION")
    IN  CASE ~g_id.ok -> g_id
          [] ~tx_id.ok -> tx_id
          [] ~g_ty.ok -> g_ty
          [] ~tx_type.ok -> tx_type
          [] ~g_from.ok -> g_from
          [] ~from.ok -> from
          [] ~g_to.ok -> g_to
          [] ~to.ok -> to
          [] ~g_am.ok -> g_am
          [] ~amount.ok -> amount
          [] ~g_ts.ok -> g_ts
          [] ~ts.ok -> ts
          [] ~g_st.ok -> g_st
          [] ~status.ok -> status
          [] ~g_d.ok -> g_d
          [] OTHER -> Ok(Op(tx_id.val, tx_type.val, from.val, to.val, amount.val,
                            ts.val, status.val, TrimMatchesQuote(g_d.val)))

\* parse_record, validate and insert of one finished block
TxtFlush(record, operations) ==
    LET r == TxtParseRecord(record)
    IN  CASE ~r.ok -> r
          [] ~Validate(r.val).ok -> Validate(r.val)
          [] OTHER -> Ok(HashSetInsert(operations, r.val))

\* `if let Some((key, value)) = parse_key_value(trimmed)`: a line that is no
\* pair leaves the block as it was
TxtAccumulate(record, trimmed) ==
    LET kv == ParseKeyValue(trimmed)
    IN  IF kv.ok THEN MapInsert(record, kv.val[1], kv.val[2]) ELSE record

\* A parser for which every skipped line closes the current block.
TxtEndsBlockOnComment(record, trimmed) == ~IsEmptyMap(record)

\* Whether the skipped line (blank or comment) closes the current block.
TxtEndsBlock(record, trimmed) == ~IsEmptyMap(record) /\ trimmed = <<>>

RECURSIVE TxtLoop(_, _, _, _)
\* The loop of text parse_all from line i on, and the flush after it.
TxtLoop(lines, i, record, operations) ==
    IF i > Len(lines)
    THEN IF ~IsEmptyMap(record) THEN TxtFlush(record, operations) ELSE Ok(operations)
    ELSE LET trimmed == Trim(lines[i])
         IN  IF trimmed = <<>> \/ Head(trimmed) = HASH
             THEN IF TxtEndsBlock(record, trimmed)
                  THEN LET f == TxtFlush(record, operations)
                       IN  IF f.ok THEN TxtLoop(lines, i + 1, EmptyMap, f.val) ELSE f
                  ELSE TxtLoop(lines, i + 1, record, operations)
             ELSE TxtLoop(lines, i + 1, TxtAccumulate(record, trimmed), operations)

\* text_format::parse_all
TxtParseAll(text) == TxtLoop(Lines(text), 1, EmptyMap, {})

TxtLine(key, value) == key \o <<COLON, SPACE>> \o value \o <<LF>>

\* One block of text write_all.
TxtBlock(op) ==
    TxtLine(K_TX_ID, ToDec(op.tx_id))
    \o TxtLine(K_TX_TYPE, TypeAsStr(op.tx_type))
    \o TxtLine(K_FROM_USER_ID, ToDec(op.from_user_id))
    \o TxtLine(K_TO_USER_ID, ToDec(op.to_user_id))
    \o TxtLine(K_AMOUNT, I64ToDec(op.amount))
    \o TxtLine(K_TIMESTAMP, ToDec(op.timestamp))
    \o TxtLine(K_STATUS, StatusAsStr(op.status))
    \o TxtLine(K_DESCRIPTION, <<QUOTE>> \o op.description \o <<QUOTE>>)

RECURSIVE TxtWriteBlocks(_, _, _)
TxtWriteBlocks(order, i, out) ==
    IF i > Len(order) THEN Written(Ok(TRUE), out)
    ELSE IF ~Validate(order[i]).ok THEN Written(Validate(order[i]), out)
    ELSE TxtWriteBlocks(order, i + 1,
                        out \o (IF i > 1 THEN <<LF>> ELSE <<>>) \o TxtBlock(order[i]))

\* text_format::write_all, the set iterated in the given order
TxtWriteAll(order) == TxtWriteBlocks(order, 1, <<>>)

\* --------------------------------------------- the binary codec, whole streams

RECURSIVE BinLoopSized(_, _, _)
\* A loop that finds the next record by the record_size of the one just read.
BinLoopSized(stream, pos, operations) ==
    LET r == ParseOperation(stream, pos)
        record_size == FromBeBytes(SubSeq(stream, pos + 4, pos + 7))
    IN  CASE r.ok -> BinLoopSized(stream, pos + 8 + record_size,
                                  HashSetInsert(operations, r.val.op))
          [] r.err.kind = "Io" /\ r.err.msg = <<"UnexpectedEof">> -> Ok(operations)
          [] OTHER -> r

RECURSIVE BinLoop(_, _, _)
\* The loop of bin parse_all with the reader at pos.
BinLoop(stream, pos, operations) ==
    LET r == ParseOperation(stream, pos)
    IN  CASE r.ok -> BinLoop(stream, r.val.next, HashSetInsert(operations, r.val.op))
          [] r.err.kind = "Io" /\ r.err.msg = <<"UnexpectedEof">> -> Ok(operations)
          [] OTHER -> r

\* bin_format::parse_all
BinParseAll(stream) == BinLoop(stream, 1, {})

RECURSIVE BinWriteRecords(_, _)
BinWriteRecords(order, out) ==
    IF order = <<>> THEN Written(Ok(TRUE), out)
    ELSE LET w == WriteOperation(Head(order))
         IN  IF w.ok THEN BinWriteRecords(Tail(order), out \o w.val)
             ELSE Written(w, out)

\* bin_format::write_all, the set iterated in the given order
BinWriteAll(order) == BinWriteRecords(order, <<>>)

\* ------------------------------------------------------------ the inputs

\* Three well-formed records; G1 and G1b share their tx_id and nothing else.
G1 == Op(1, "Deposit", 0, 2, 5, 7, "Success", <<"a">>)

G1b == Op(1, "Withdrawal", 2, 0, -1, 8, "Pending", <<"n">>)

G2 == Op(2, "Transfer", 1, 2, 10, 7, "Failure", <<>>)

\* A record that breaks the identifier invariant (a Deposit with a sender).
Bad3 == Op(3, "Deposit", 1, 2, 5, 7, "Success", <<"a">>)

\* One piece of a drawn input: what it is (tag), the field at fault, the record
\* it denotes when well-formed, the raw DESCRIPTION it carries, and its text.
Item(tag, field, op, raw, body) ==
    [tag |-> tag, field |-> field, op |-> op, raw |-> raw, body |-> body]

SeqsUpTo(S, n) == UNION {[1..k -> S] : k \in 0..n}

\* ---- binary

\* The bytes of one record from its wire fields, nothing validated.
BinBody(magic, size, op, ty, st, desc_bytes) ==
    magic \o ToBeBytes(size, 4) \o ToBeBytes(op.tx_id, 8) \o <<ty>>
    \o ToBeBytes(op.from_user_id, 8) \o ToBeBytes(op.to_user_id, 8)
    \o I64ToBeBytes(op.amount) \o ToBeBytes(op.timestamp, 8) \o <<st>>
    \o ToBeBytes(Len(desc_bytes), 4) \o desc_bytes

BinGood(op) ==
    Item("good", "", op, op.description,
         BinBody(MAGIC, 46 + Len(AsBytes(op.description)), op, TypeToU8(op.tx_type),
                 StatusToU8(op.status), AsBytes(op.description)))

\* The record whose truncations are drawn, byte by byte.
BinCutItem == BinGood(G1b)

BinItems ==
    {BinGood(G1), BinGood(G1b), BinGood(G2)} \cup
    {Item("good", "RECORD_SIZE", G2, <<>>,
          BinBody(MAGIC, 0, G2, 1, 1, <<>>)),
     Item("magic", "", G1, <<>>,
          BinBody(<<89, 80, 66, 77>>, 47, G1, 0, 0, <<97>>)),
     Item("ordinal", "TX_TYPE", G1, <<>>, BinBody(MAGIC, 47, G1, 3, 0, <<97>>)),
     Item("ordinal", "STATUS", G1, <<>>, BinBody(MAGIC, 47, G1, 0, 255, <<97>>)),
     Item("invariant", "FROM_USER_ID", Bad3, <<>>, BinBody(MAGIC, 47, Bad3, 0, 0, <<97>>)),
     Item("utf8", "DESCRIPTION", G1, <<>>, BinBody(MAGIC, 47, G1, 0, 0, <<255>>))}

\* ---- CSV

RECURSIVE Join(_, _)
Join(parts, sep) ==
    IF parts = <<>> THEN <<>>
    ELSE IF Len(parts) = 1 THEN parts[1]
    ELSE parts[1] \o sep \o Join(Tail(parts), sep)

\* The eight fields of a row for op, the description in quotes.
CsvFields(op) ==
    <<ToDec(op.tx_id), TypeAsStr(op.tx_type), ToDec(op.from_user_id),
      ToDec(op.to_user_id), I64ToDec(op.amount), ToDec(op.timestamp),
      StatusAsStr(op.status), <<QUOTE>> \o op.description \o <<QUOTE>>>>

CsvGood(op) == Item("good", "", op, op.description, Join(CsvFields(op), <<COMMA>>))

\* The row of op with field k replaced by text.
CsvWith(tag, field, op, k, text) ==
    Item(tag, field, op, <<>>, Join([CsvFields(op) EXCEPT ![k] = text], <<COMMA>>))

TwentyNines == [i \in 1..20 |-> "9"]

\* The rows drawn in every combination, and those drawn alone.
CsvItems ==
    {CsvGood(G1), CsvGood(G1b), CsvGood(G2),
     CsvWith("integer", "TX_ID", G1, 1, <<"x">>),
     CsvWith("label", "STATUS", G1, 7, <<"D","O","N","E">>),
     CsvWith("invariant", "FROM_USER_ID", Bad3, 1, <<"3">>),
     Item("count", "", G1, <<>>, Join(SubSeq(CsvFields(G1), 1, 7), <<COMMA>>)),
     Item("blank", "", G1, <<>>, <<SPACE, TAB>>)}

CsvSingles ==
    {CsvWith("good", "", G1, 1, <<"+", "1">>),
     CsvWith("integer", "TX_ID", G1, 1, <<>>),
     CsvWith("integer", "TX_ID", G1, 1, <<"-", "1">>),
     CsvWith("integer", "TX_ID", G1, 1, TwentyNines),
     CsvWith("integer", "FROM_USER_ID", G1, 3, <<"0", "x">>),
     CsvWith("integer", "TO_USER_ID", G1, 4, <<SPACE, "2">>),
     CsvWith("integer", "AMOUNT", G1, 5, <<"-">>),
     CsvWith("integer", "TIMESTAMP", G1, 6, <<"7", "a">>),
     CsvWith("label", "TX_TYPE", G1, 2, <<"d","e","p","o","s","i","t">>),
     Item("count", "", G1, <<>>, Join(CsvFields(G1) \o <<<<"a">>>>, <<COMMA>>)),
     Item("blank", "", G1, <<>>, <<>>)}

\* Fields for DESCRIPTION: every string of quotes and letters up to the bound.
MaxFieldLen == 4

DescFields == SeqsUpTo({QUOTE, "a"}, MaxFieldLen)

\* A row (or block) for G1 whose DESCRIPTION field is raw, unquoted by the harness.
CsvDesc(raw) == Item("desc", "DESCRIPTION", G1, raw,
                     Join([CsvFields(G1) EXCEPT ![8] = raw], <<COMMA>>))

\* Fields that try the splitting: every string of quotes, commas and letters up
\* to the bound, as the last field of a row for G1.
SplitFields == SeqsUpTo({QUOTE, COMMA, "a"}, MaxFieldLen)

CsvSplit(raw) == Item("split", "DESCRIPTION", G1, raw,
                      Join([CsvFields(G1) EXCEPT ![8] = raw], <<COMMA>>))

\* The lines before the rows, by header variant.
CsvHeaderLines(header) ==
    CASE header = "exact" -> <<HEADER>>
      [] header = "absent" -> <<>>
      [] header = "short" -> <<SubSeq(HEADER, 1, Len(HEADER) - 1)>>
      [] header = "lower" -> <<[HEADER EXCEPT ![1] = "t"]>>
      [] header = "spaced" -> <<HEADER \o <<SPACE>>>>
      [] header = "empty" -> <<<<>>, HEADER>>

CsvHeaders == {"exact", "absent", "short", "lower", "spaced", "empty"}

\* ---- text

TxtKeys == <<K_TX_ID, K_TX_TYPE, K_FROM_USER_ID, K_TO_USER_ID, K_AMOUNT,
             K_TIMESTAMP, K_STATUS, K_DESCRIPTION>>

TxtKeyNames == <<"TX_ID", "TX_TYPE", "FROM_USER_ID", "TO_USER_ID", "AMOUNT",
                 "TIMESTAMP", "STATUS", "DESCRIPTION">>

\* The eight KEY: value lines of op, unterminated.
TxtLinesOf(op) == [k \in 1..8 |-> TxtKeys[k] \o <<COLON, SPACE>> \o CsvFields(op)[k]]

TxtBody(lines) == Join(lines, <<LF>>)

TxtGood(op) == Item("good", "", op, op.description, TxtBody(TxtLinesOf(op)))

\* The lines of a sequence without its k-th.
Without(seq, k) == SubSeq(seq, 1, k - 1) \o SubSeq(seq, k + 1, Len(seq))

TxtWith(tag, field, op, k, text) ==
    Item(tag, field, op, <<>>,
         TxtBody([TxtLinesOf(op) EXCEPT ![k] = TxtKeys[k] \o <<COLON>> \o text]))

\* The blocks drawn in every combination, and those drawn alone.
TxtItems ==
    {TxtGood(G1), TxtGood(G1b), TxtGood(G2),
     Item("missing", "STATUS", G1, <<>>, TxtBody(Without(TxtLinesOf(G1), 7))),
     TxtWith("integer", "TX_ID", G1, 1, <<"x">>),
     TxtWith("invariant", "FROM_USER_ID", Bad3, 1, <<"3">>),
     Item("nocolon", "", G1, <<>>, TxtBody(TxtLinesOf(G1) \o <<<<"g","a","r","b","a","g","e">>>>)),
     Item("unknownkey", "", G1, <<>>, TxtBody(TxtLinesOf(G1) \o <<<<"F","E","E",COLON,"1">>>>))}

\* A block without TX_TYPE and without STATUS: TX_TYPE is the first key missing.
TxtMissingTwo ==
    Item("missing", "TX_TYPE", G1, <<>>, TxtBody(Without(Without(TxtLinesOf(G1), 7), 2)))

\* The key the next block lacks.
LateMissingKey == "STATUS"

\* A block without STATUS whose TX_ID, earlier in the order, is no integer.
TxtMissingLate ==
    Item("missing_late", "TX_ID", G1, <<>>,
         TxtBody(Without([TxtLinesOf(G1) EXCEPT ![1] = K_TX_ID \o <<COLON, "x">>], 7)))

TxtSingles ==
    {Item("missing", TxtKeyNames[k], G1, <<>>, TxtBody(Without(TxtLinesOf(G1), k))) :
        k \in 1..8} \cup
    {TxtMissingTwo, TxtMissingLate,
     TxtWith("integer", "AMOUNT", G1, 5, <<>>),
     TxtWith("label", "STATUS", G1, 7, <<SPACE, "O", "K">>),
     Item("nocolon", "", G1, <<>>, TxtBody(<<<<"a">>>> \o TxtLinesOf(G1))),
     Item("dupkey", "TX_ID", G2, <<>>, TxtBody(<<K_TX_ID \o <<COLON, "x">>>> \o TxtLinesOf(G2)))}

TxtDesc(raw) == Item("desc", "DESCRIPTION", G1, raw,
                     TxtBody([TxtLinesOf(G1) EXCEPT ![8] = K_DESCRIPTION \o <<COLON>> \o raw]))

\* What separates two blocks, as lines.
TxtSepLines(sep) ==
    CASE sep = "blank" -> <<<<>>>>
      [] sep = "blanks" -> <<<<SPACE>>, <<>>>>
      [] sep = "comment" -> <<<<HASH, SPACE, "c">>>>
      [] sep = "both" -> <<<<HASH>>, <<>>>>

TxtSeps == {"blank", "blanks", "comment", "both"}

\* A drawn input: its pieces in order and how they are laid out.
Craft(items, header, sep, eol, cut) ==
    [items |-> items, header |-> header, sep |-> sep, eol |-> eol, cut |-> cut]

NoCraft == Craft(<<>>, "", "", "", 0)

Bodies(items) == [i \in 1..Len(items) |-> items[i].body]

\* Binary streams: records back to back; and, to end a stream anywhere inside a
\* record, streams whose last record has lost its last cut bytes.
BinCrafts ==
    {Craft(its, "", "", "", 0) : its \in SeqsUpTo(BinItems, MaxRecords)} \cup
    {Craft(its \o <<BinCutItem>>, "", "", "", c) :
        its \in SeqsUpTo(BinItems, MaxRecords - 1), c \in 1..Len(BinCutItem.body)}

\* CSV inputs: rows under the exact header in three line-ending styles, each
\* other header variant over at most one row, and the DESCRIPTION rows.
CsvCrafts ==
    {Craft(its, "exact", "", eol, 0) :
        its \in SeqsUpTo(CsvItems, MaxRecords), eol \in {"lf", "crlf", "open"}} \cup
    {Craft(<<it>>, "exact", "", "lf", 0) : it \in CsvSingles} \cup
    {Craft(its, h, "", "lf", 0) :
        its \in SeqsUpTo({CsvGood(G1)}, 1), h \in CsvHeaders} \cup
    {Craft(<<CsvDesc(raw)>>, "exact", "", "lf", 0) : raw \in DescFields} \cup
    {Craft(<<CsvSplit(raw)>>, "exact", "", "lf", 0) : raw \in SplitFields}

\* Text inputs: blocks with one kind of separator between them, ending with or
\* without a line terminator, and the DESCRIPTION blocks.
TxtCrafts ==
    {Craft(its, "", sep, eol, 0) :
        its \in SeqsUpTo(TxtItems, MaxRecords), sep \in TxtSeps, eol \in {"lf", "open"}} \cup
    {Craft(<<it>>, "", "blank", "lf", 0) : it \in TxtSingles} \cup
    {Craft(<<TxtDesc(raw)>>, "", "blank", "lf", 0) : raw \in DescFields}

Crafts(fmt) ==
    CASE fmt = "bin" -> BinCrafts
      [] fmt = "csv" -> CsvCrafts
      [] fmt = "txt" -> TxtCrafts

\* Lines to text: lf and crlf terminate every line, open leaves the last one
\* unterminated.
LinesToText(lines, eol) ==
    LET term == IF eol = "crlf" THEN <<CR, LF>> ELSE <<LF>>
    IN  IF lines = <<>> THEN <<>>
        ELSE Join(lines, term) \o (IF eol = "open" THEN <<>> ELSE term)

\* The lines of a text input: the blocks' lines with the separator between blocks.
RECURSIVE TxtAllLines(_, _)
TxtAllLines(items, sep) ==
    IF items = <<>> THEN <<>>
    ELSE SplitLf(Head(items).body)
         \o (IF Len(items) > 1 THEN TxtSepLines(sep) ELSE <<>>)
         \o TxtAllLines(Tail(items), sep)

\* The lines of a CSV input.
CsvAllLines(c) == CsvHeaderLines(c.header) \o Bodies(c.items)

\* The stream a craft denotes.
Render(fmt, c) ==
    CASE fmt = "bin" ->
           LET all == Concat(Bodies(c.items)) IN SubSeq(all, 1, Len(all) - c.cut)
      [] fmt = "csv" -> LinesToText(CsvAllLines(c), c.eol)
      [] fmt = "txt" -> LinesToText(TxtAllLines(c.items, c.sep), c.eol)

\* -------------------------------------------------------- the state machine

VARIABLES
    pc,          \* "validate", "write", "parse" or "done"
    format,      \* the codec in use: "bin", "csv" or "txt"
    craft,       \* how the input stream was drawn (NoCraft for a written one)
    operations,  \* the HashSet<Operation> handed to validate or write_all
    input,       \* the stream handed to parse_all
    written,     \* what write_all returned and emitted
    result       \* what validate or parse_all returned

vars == <<pc, format, craft, operations, input, written, result>>

Formats == {"bin", "csv", "txt"}

NoResult == Err([kind |-> "None", field |-> "", msg |-> <<>>])

NoWritten == Written(NoResult, <<>>)

\* parse_all of the codec in use
ParseAll(fmt, stream) ==
    CASE fmt = "bin" -> BinParseAll(stream)
      [] fmt = "csv" -> CsvParseAll(stream)
      [] fmt = "txt" -> TxtParseAll(stream)

\* write_all of the codec in use
WriteAll(fmt, order) ==
    CASE fmt = "bin" -> BinWriteAll(order)
      [] fmt = "csv" -> CsvWriteAll(order)
      [] fmt = "txt" -> TxtWriteAll(order)

\* The orders in which a HashSet may be iterated.
Orders(set) ==
    {o \in [1..Cardinality(set) -> set] : \A x \in set : \E i \in DOMAIN o : o[i] = x}

\* converter / comparer: parse_file hands the stream to the codec's parse_all
Parse ==
    /\ pc = "parse"
    /\ result' = ParseAll(format, input)
    /\ pc' = "done"
    /\ UNCHANGED <<format, craft, operations, input, written>>

\* A caller serialises a set; what was emitted is then read back.
Write ==
    /\ pc = "write"
    /\ \E order \in Orders(operations) :
          /\ written' = WriteAll(format, order)
          /\ input' = written'.out
    /\ pc' = IF written'.res.ok THEN "parse" ELSE "done"
    /\ UNCHANGED <<format, craft, operations, result>>

\* A caller validates one record.
DoValidate ==
    /\ pc = "validate"
    /\ \E op \in operations : result' = Validate(op)
    /\ pc' = "done"
    /\ UNCHANGED <<format, craft, operations, input, written>>

\* ---- parsing drawn inputs

Init ==
    /\ pc = "parse"
    /\ format \in Formats
    /\ craft \in Crafts(format)
    /\ operations = {}
    /\ input = Render(format, craft)
    /\ written = NoWritten
    /\ result = NoResult

Next == Parse

Spec == Init /\ [][Next]_vars

\* ---- writing a set and reading it back

DescAlphabet == {"a", "n", QUOTE, BACKSLASH, SPACE, COMMA, LF, CYR}

Descriptions == SeqsUpTo(DescAlphabet, MaxDescLen)

RoundTripSets ==
    {{[G1 EXCEPT !.description = d]} : d \in Descriptions} \cup
    {{G1b}, {G2}, {Bad3}, {G1, G2}, {G1b, G2}, {G2, Bad3}}

InitRoundTrip ==
    /\ pc = "write"
    /\ format \in Formats
    /\ craft = NoCraft
    /\ operations \in RoundTripSets
    /\ input = <<>>
    /\ written = NoWritten
    /\ result = NoResult

NextRoundTrip == Write \/ Parse

SpecRoundTrip == InitRoundTrip /\ [][NextRoundTrip]_vars

\* ---- validating one record

ValidateDomain ==
    {Op(id, ty, from, to, amount, ts, st, d) :
        id \in {1, 2}, ty \in OperationType, from \in 0..2, to \in 0..2,
        amount \in {-1, 0, 5}, ts \in {0, 7}, st \in {"Success", "Pending"},
        d \in {<<>>, <<"a">>}}

InitValidate ==
    /\ pc = "validate"
    /\ format = "bin"
    /\ craft = NoCraft
    /\ operations \in {{op} : op \in ValidateDomain}
    /\ input = <<>>
    /\ written = NoWritten
    /\ result = NoResult

NextValidate == DoValidate

SpecValidate == InitValidate /\ [][NextValidate]_vars

\* ------------------------------------------------- reading a drawn input

Done == pc = "done"

\* The pieces of the input that are wholly in the stream: a binary stream cut
\* short loses (part of) its last record.
Complete(c) ==
    {i \in 1..Len(c.items) : i < Len(c.items) \/ c.cut = 0}

\* The pieces that are records: every complete piece but a blank CSV line.
RecordIdx(c) == {i \in Complete(c) : c.items[i].tag # "blank"}

\* The pieces whose record is known exactly: well-formed and plainly described.
PlainInput(c) == \A i \in RecordIdx(c) : c.items[i].tag = "good"

\* In the text format a blank line ends a block; an input whose blocks are
\* parted by a comment line alone is a single block to the parser.
BlocksParted(fmt, c) == fmt = "txt" => c.sep \in {"blank", "blanks", "both"}

\* The kinds of malformed record: wrong magic, unknown ordinal or label,
\* unparsable integer, wrong field count, missing key, violated invariant.
MalformedTags == {"magic", "ordinal", "label", "integer", "count", "missing", "invariant"}

\* ------------------------------------------------------------- the claims

\* C1: for every Operation that passes validate(), writing it with a codec and
\* parsing what was written with the same codec yields an Operation equal to
\* the original in every field.
C1_RoundTripAllFields ==
    (/\ Done
     /\ craft = NoCraft
     /\ Cardinality(operations) = 1
     /\ \A op \in operations : Validate(op).ok)
    => /\ written.res.ok
       /\ result.ok
       /\ result.val = operations

\* C2: validate() succeeds exactly for a Deposit with from_user_id = 0, a
\* Withdrawal with to_user_id = 0 and a Transfer with both identifiers non-zero;
\* every other record gets an InvalidField error, whatever its other fields.
C2_ValidateIff ==
    (Done /\ format = "bin" /\ craft = NoCraft /\ written = NoWritten) =>
        \A op \in operations :
            LET accepted == \/ op.tx_type = "Deposit" /\ op.from_user_id = 0
                            \/ op.tx_type = "Withdrawal" /\ op.to_user_id = 0
                            \/ /\ op.tx_type = "Transfer"
                               /\ op.from_user_id # 0
                               /\ op.to_user_id # 0
            IN  /\ result.ok <=> accepted
                /\ ~result.ok => result.err.kind = "InvalidField"

\* A Transfer with a sender and no receiver was validated and rejected.
C2_Witness ==
    /\ Done
    /\ \E op \in operations :
          /\ op.tx_type = "Transfer"
          /\ op.from_user_id # 0
          /\ op.to_user_id = 0
          /\ op.amount < 0
    /\ result = Err(ErrInvalidField("FROM_USER_ID/TO_USER_ID", "Cannot be 0 for TRANSFER"))

\* C3: a successful parse_all returns exactly one record per distinct tx_id of
\* the records of its input: as many records as distinct tx_ids, and those ids.
C3_OnePerTxId ==
    (Done /\ craft # NoCraft /\ BlocksParted(format, craft) /\ result.ok) =>
        LET ids == {craft.items[i].op.tx_id : i \in RecordIdx(craft)}
        IN  /\ Cardinality(result.val) = Cardinality(ids)
            /\ {o.tx_id : o \in result.val} = ids

\* Two records with one tx_id and different other fields were parsed into a
\* single record.
C3_Witness ==
    /\ Done
    /\ result.ok
    /\ BlocksParted(format, craft)
    /\ \E i, j \in RecordIdx(craft) :
          /\ i < j
          /\ craft.items[i].op.tx_id = craft.items[j].op.tx_id
          /\ craft.items[i].op # craft.items[j].op
    /\ Cardinality(result.val) = 1

\* The first record of the input with the tx_id of o.
FirstWithId(c, id) ==
    LET idx == {i \in RecordIdx(c) : c.items[i].op.tx_id = id}
    IN  c.items[CHOOSE i \in idx : \A j \in idx : i <= j].op

\* The last record of the input with the tx_id of o.
LastWithId(c, id) ==
    LET idx == {i \in RecordIdx(c) : c.items[i].op.tx_id = id}
    IN  c.items[CHOOSE i \in idx : \A j \in idx : i >= j].op

\* C4 as stated: of several records sharing a tx_id, parse_all retains the last
\* one in input order.
C4_LastWins ==
    (Done /\ craft # NoCraft /\ BlocksParted(format, craft) /\ PlainInput(craft)
          /\ result.ok) =>
        \A o \in result.val : o = LastWithId(craft, o.tx_id)

\* C4 as amended: of several records sharing a tx_id, parse_all retains the
\* first one in input order.
C4_FirstWins ==
    (Done /\ craft # NoCraft /\ BlocksParted(format, craft) /\ PlainInput(craft)
          /\ result.ok) =>
        \A o \in result.val : o = FirstWithId(craft, o.tx_id)

\* Two records sharing a tx_id, the second different from the first, were parsed.
C4_Witness ==
    /\ Done
    /\ result.ok
    /\ BlocksParted(format, craft)
    /\ PlainInput(craft)
    /\ Len(craft.items) = 2
    /\ RecordIdx(craft) = {1, 2}
    /\ craft.items[1].op.tx_id = craft.items[2].op.tx_id
    /\ craft.items[1].op # craft.items[2].op
    /\ result.val = {craft.items[1].op}

\* C5: binary parse_all succeeds only when the stream ends exactly between
\* records; a stream that ends inside a record makes it return an error.
C5_TruncationIsError ==
    (Done /\ format = "bin" /\ craft.items # <<>>) =>
        LET last == craft.items[Len(craft.items)]
        IN  (0 < craft.cut /\ craft.cut < Len(last.body)) => ~result.ok

\* C6: if any record of the input is malformed, parse_all returns an error and
\* no collection, whatever well-formed records precede or follow it.
C6_NoPartialSuccess ==
    (/\ Done
     /\ craft # NoCraft
     /\ BlocksParted(format, craft)
     /\ \E i \in RecordIdx(craft) : craft.items[i].tag \in MalformedTags)
    => ~result.ok

\* A CSV input whose second row is malformed, after a well-formed first row,
\* was parsed and refused.
C6_Witness ==
    /\ Done
    /\ ~result.ok
    /\ BlocksParted(format, craft)
    /\ Len(craft.items) = 2
    /\ RecordIdx(craft) = {1, 2}
    /\ craft.items[1].tag = "good"
    /\ craft.items[2].tag \in MalformedTags
    /\ format = "csv"

\* C7: text parse_all returns an error whenever a block holds a line that is
\* neither blank, nor a comment, nor a KEY: value pair of one of the eight keys.
C7_StrayLineIsError ==
    (/\ Done
     /\ format = "txt"
     /\ \E i \in RecordIdx(craft) : craft.items[i].tag \in {"nocolon", "unknownkey"})
    => ~result.ok

\* C8 as stated: CSV parse_all returns InvalidFormat when the input has no first
\* line or its first line is not the header literal, and a collection only
\* when the first line is that literal.
C8_HeaderInvalidFormat ==
    (Done /\ format = "csv") =>
        LET all == CsvAllLines(craft)
        IN  /\ (all = <<>> \/ all[1] # HEADER) =>
                  ~result.ok /\ result.err.kind = "InvalidFormat"
            /\ result.ok => all # <<>> /\ all[1] = HEADER

\* C8 as amended: an input with no first line gets UnexpectedEof, a first line
\* that is not the header literal gets InvalidFormat, and a collection is
\* returned only when the first line is that literal.
C8_Header ==
    (Done /\ format = "csv") =>
        LET all == CsvAllLines(craft)
        IN  /\ all = <<>> => result = Err(ErrUnexpectedEof)
            /\ (all # <<>> /\ all[1] # HEADER) =>
                  ~result.ok /\ result.err.kind = "InvalidFormat"
            /\ result.ok => all # <<>> /\ all[1] = HEADER

\* The empty CSV input was parsed.
C8_Witness ==
    /\ Done
    /\ format = "csv"
    /\ CsvAllLines(craft) = <<>>
    /\ input = <<>>
    /\ result = Err(ErrUnexpectedEof)

\* C9: a CSV row of 8 fields with an unparsable integer or an unknown label makes
\* csv parse_all return InvalidField naming that field, while a wrong field
\* count makes it return InvalidFormat.
C9_FieldErrorsTyped ==
    (/\ Done
     /\ format = "csv"
     /\ craft.header = "exact"
     /\ craft.items # <<>>)
    => LET first == craft.items[1]
       IN  /\ first.tag \in {"integer", "label"} =>
                 /\ ~result.ok
                 /\ result.err.kind = "InvalidField"
                 /\ result.err.field = first.field
           /\ first.tag = "count" =>
                 ~result.ok /\ result.err.kind = "InvalidFormat"

\* C10: the CSV and text codecs strip exactly one layer of surrounding double
\* quotes from DESCRIPTION, when both quotes are there, and nothing else.
C10_OneQuoteLayer ==
    (/\ Done
     /\ format \in {"csv", "txt"}
     /\ Len(craft.items) = 1
     /\ craft.items[1].tag = "desc")
    => /\ result.ok
       /\ \A o \in result.val :
             o.description = StripOneQuoteLayer(craft.items[1].raw)

\* ------------------------------------------------- one binary record

\* The longest raw description drawn for a single binary record.
MaxRawLen == 4

\* Characters that exercise normalization: the escape letters, a letter that
\* is no escape, the quote, the backslash and a whitespace.
RawAlphabet == {"a", "n", "t", "r", QUOTE, BACKSLASH, SPACE}

RawDescriptions == SeqsUpTo(RawAlphabet, MaxRawLen)

\* A record on the wire carrying the raw description bytes as they are.
BinRaw(raw) ==
    Item("desc", "", G1, raw,
         BinBody(MAGIC, 46 + Len(AsBytes(raw)), G1, 0, 0, AsBytes(raw)))

\* Records that do not start with the magic: each of its bytes wrong in turn
\* before a record that is otherwise well-formed, before one with an unknown
\* ordinal, and a stream that holds four wrong bytes and nothing else.
MagicItems ==
    {Item("magic", "", G1, <<>>, BinBody([MAGIC EXCEPT ![k] = 0], 47, G1, ty, 0, <<97>>)) :
        k \in 1..4, ty \in {0, 3}} \cup
    {Item("magic", "", G1, <<>>, <<89, 80, 66, 77>>)}

\* The single records handed to parse_operation.
RecordCrafts ==
    {Craft(<<BinRaw(raw)>>, "", "", "", 0) : raw \in RawDescriptions} \cup
    {Craft(<<it>>, "", "", "", 0) : it \in BinItems \cup MagicItems}

\* Characters for the descriptions written: a letter, a character of two bytes,
\* the quote, the backslash and a whitespace.
WriteAlphabet == {"a", CYR, QUOTE, BACKSLASH, SPACE}

WriteDescriptions == SeqsUpTo(WriteAlphabet, MaxRawLen)

\* The single records handed to write_operation.
RecordOps ==
    {G1, G1b, G2, Bad3} \cup {[G1 EXCEPT !.description = d] : d \in WriteDescriptions}

\* A caller reads one record from the start of the stream.
DoParseOperation ==
    /\ pc = "parse_operation"
    /\ result' = ParseOperation(input, 1)
    /\ pc' = "returned"
    /\ UNCHANGED <<format, craft, operations, input, written>>

\* A caller writes one record to an empty writer; what was emitted is read back.
DoWriteOperation ==
    /\ pc = "write_operation"
    /\ \E op \in operations :
          LET w == WriteOperation(op)
          IN  /\ written' = IF w.ok THEN Written(Ok(TRUE), w.val) ELSE Written(w, <<>>)
              /\ input' = IF w.ok THEN w.val ELSE <<>>
              /\ pc' = IF w.ok THEN "parse_operation" ELSE "returned"
    /\ UNCHANGED <<format, craft, operations, result>>

InitRecord ==
    /\ format = "bin"
    /\ \/ /\ pc = "parse_operation"
          /\ craft \in RecordCrafts
          /\ operations = {}
          /\ input = Render("bin", craft)
       \/ /\ pc = "write_operation"
          /\ craft = NoCraft
          /\ operations \in {{op} : op \in RecordOps}
          /\ input = <<>>
    /\ written = NoWritten
    /\ result = NoResult

NextRecord == DoWriteOperation \/ DoParseOperation

SpecRecord == InitRecord /\ [][NextRecord]_vars

Returned == pc = "returned"

\* parse_operation has returned for a drawn record.
ParsedDrawn == Returned /\ craft # NoCraft

\* ------------------------------------------------- the claims, continued

\* The number of consecutive backslashes of s that end at position i.
BackslashRun(s, i) ==
    Cardinality({k \in 1..i : \A j \in k..i : s[j] = BACKSLASH})

\* Position i of s holds a backslash that opens an escape: an odd one of its run.
OpensEscape(s, i) == s[i] = BACKSLASH /\ BackslashRun(s, i) % 2 = 1

KnownEscapes == {QUOTE, BACKSLASH, "n", "t", "r"}

EscapeOf(c) ==
    CASE c = QUOTE -> QUOTE
      [] c = BACKSLASH -> BACKSLASH
      [] c = "n" -> LF
      [] c = "t" -> TAB
      [] c = "r" -> CR

\* Position i of s is the second character of a recognised escape.
ClosesEscape(s, i) == i > 1 /\ OpensEscape(s, i - 1) /\ s[i] \in KnownEscapes

\* The text the stated scan produces: every recognised two-character escape
\* replaced by its character, everything else kept.
UnescapedAsStated(s) ==
    LET kept == {i \in 1..Len(s) : ~ClosesEscape(s, i)}
        nth(k) == CHOOSE i \in kept : Cardinality({j \in kept : j < i}) = k - 1
    IN  [k \in 1..Cardinality(kept) |->
            LET i == nth(k)
            IN  IF i < Len(s) /\ ClosesEscape(s, i + 1) THEN EscapeOf(s[i + 1]) ELSE s[i]]

\* s without its surrounding whitespace.
TrimmedAsStated(s) ==
    LET solid == {i \in 1..Len(s) : ~IsWhitespace(s[i])}
    IN  IF solid = {} THEN <<>>
        ELSE SubSeq(s, CHOOSE i \in solid : \A j \in solid : i <= j,
                       CHOOSE i \in solid : \A j \in solid : i >= j)

\* The stated normalization: trim, strip one surrounding pair of quotes, unescape.
NormalizedAsStated(s) ==
    LET t == TrimmedAsStated(s)
        quoted == Len(t) >= 2 /\ t[1] = QUOTE /\ t[Len(t)] = QUOTE
    IN  UnescapedAsStated(IF quoted THEN SubSeq(t, 2, Len(t) - 1) ELSE t)

\* C11: the description parse_operation returns is the raw description trimmed,
\* then stripped of one surrounding pair of quotes, then unescaped left to
\* right with unknown escapes and a trailing backslash kept; an unquoted raw
\* description without a backslash comes back trimmed only.
C11_Normalization ==
    (ParsedDrawn /\ craft.items[1].tag = "desc") =>
        LET raw == craft.items[1].raw
            t == TrimmedAsStated(raw)
        IN  /\ result.ok
            /\ result.val.op.description = NormalizedAsStated(raw)
            /\ ((\A i \in 1..Len(raw) : raw[i] # BACKSLASH)
                /\ ~(Len(t) >= 2 /\ t[1] = QUOTE /\ t[Len(t)] = QUOTE))
               => result.val.op.description = t

\* A quoted raw description with an escaped quote, an unknown escape and
\* surrounding whitespace was parsed.
C11_Witness ==
    /\ ParsedDrawn
    /\ craft.items[1].raw \in
          {<<SPACE, QUOTE, BACKSLASH, QUOTE>>, <<QUOTE, BACKSLASH, "a", QUOTE>>}
    /\ result.ok
    /\ result.val.op.description \in {<<QUOTE>>, <<BACKSLASH, "a">>}

\* ------------------------------------------------- the enum conversions

\* The conversions of the enum named: "type" is OperationType, "status" is
\* OperationStatus.
Variants(enum) == IF enum = "type" THEN OperationType ELSE OperationStatus

ToU8(enum, v) == IF enum = "type" THEN TypeToU8(v) ELSE StatusToU8(v)

FromU8(enum, b) == IF enum = "type" THEN TypeFromU8(b) ELSE StatusFromU8(b)

AsStr(enum, v) == IF enum = "type" THEN TypeAsStr(v) ELSE StatusAsStr(v)

FromStr(enum, s) == IF enum = "type" THEN TypeFromStr(s) ELSE StatusFromStr(s)

\* What a conversion is called on: the enum, the variant converted first (none
\* when the argument was drawn) and the argument of the pending call.
Call(enum, variant, arg) == [enum |-> enum, variant |-> variant, arg |-> arg]

\* Every u8.
Bytes == 0..255

\* The six labels and strings near them: other case, padded, cut short, empty.
Labels ==
    {TypeAsStr(v) : v \in OperationType} \cup {StatusAsStr(v) : v \in OperationStatus} \cup
    {<<>>, <<"d","e","p","o","s","i","t">>, <<"D","e","p","o","s","i","t">>,
     L_DEPOSIT \o <<SPACE>>, <<SPACE>> \o L_PENDING, SubSeq(L_TRANSFER, 1, 7),
     L_SUCCESS \o <<"S">>, <<"0">>}

\* to_u8 of a variant; the ordinal is then handed to from_u8.
DoToU8 ==
    /\ pc = "to_u8"
    /\ input' = Call(input.enum, input.variant, ToU8(input.enum, input.arg))
    /\ pc' = "from_u8"
    /\ UNCHANGED <<format, craft, operations, written, result>>

\* from_u8 of a byte
DoFromU8 ==
    /\ pc = "from_u8"
    /\ result' = FromU8(input.enum, input.arg)
    /\ pc' = "returned"
    /\ UNCHANGED <<format, craft, operations, input, written>>

\* as_str of a variant; the label is then handed to from_str.
DoAsStr ==
    /\ pc = "as_str"
    /\ input' = Call(input.enum, input.variant, AsStr(input.enum, input.arg))
    /\ pc' = "from_str"
    /\ UNCHANGED <<format, craft, operations, written, result>>

\* from_str of a string
DoFromStr ==
    /\ pc = "from_str"
    /\ result' = FromStr(input.enum, input.arg)
    /\ pc' = "returned"
    /\ UNCHANGED <<format, craft, operations, input, written>>

InitConvert ==
    /\ \E enum \in {"type", "status"} :
          \/ /\ pc \in {"to_u8", "as_str"}
             /\ \E v \in Variants(enum) : input = Call(enum, v, v)
          \/ /\ pc = "from_u8"
             /\ \E b \in Bytes : input = Call(enum, "", b)
          \/ /\ pc = "from_str"
             /\ \E l \in Labels : input = Call(enum, "", l)
    /\ format = IF pc \in {"to_u8", "from_u8"} THEN "bin" ELSE "csv"
    /\ craft = NoCraft
    /\ operations = {}
    /\ written = NoWritten
    /\ result = NoResult

NextConvert == DoToU8 \/ DoFromU8 \/ DoAsStr \/ DoFromStr

SpecConvert == InitConvert /\ [][NextConvert]_vars

\* The stated ordinal and label of each variant.
StatedOrdinal(v) ==
    CASE v \in {"Deposit", "Success"} -> 0
      [] v \in {"Transfer", "Failure"} -> 1
      [] v \in {"Withdrawal", "Pending"} -> 2

StatedLabel(v) ==
    CASE v = "Deposit" -> <<"D","E","P","O","S","I","T">>
      [] v = "Transfer" -> <<"T","R","A","N","S","F","E","R">>
      [] v = "Withdrawal" -> <<"W","I","T","H","D","R","A","W","A","L">>
      [] v = "Success" -> <<"S","U","C","C","E","S","S">>
      [] v = "Failure" -> <<"F","A","I","L","U","R","E">>
      [] v = "Pending" -> <<"P","E","N","D","I","N","G">>

\* C12: to_u8 and as_str give each variant its stated ordinal and label, from_u8
\* and from_str give the variant back, and from_u8 of any other byte or from_str
\* of any other string returns InvalidField.
C12_EnumConversions ==
    LET ofEnum == Variants(input.enum)
    IN  /\ (pc = "from_u8" /\ input.variant # "") =>
               input.arg = StatedOrdinal(input.variant)
        /\ (pc = "from_str" /\ input.variant # "") =>
               input.arg = StatedLabel(input.variant)
        /\ (Returned /\ input.variant # "") => result = Ok(input.variant)
        /\ (Returned /\ input.variant = "") =>
               LET hit == {v \in ofEnum :
                              IF format = "bin" THEN input.arg = StatedOrdinal(v)
                              ELSE input.arg = StatedLabel(v)}
               IN  IF hit = {}
                   THEN ~result.ok /\ result.err.kind = "InvalidField"
                   ELSE result.ok /\ result.val \in hit

\* The byte 3 was refused as an OperationType, and the label of a status too.
C12_Witness ==
    /\ Returned
    /\ input.enum = "type"
    /\ input.variant = ""
    /\ IF format = "bin" THEN input.arg = 3 ELSE input.arg = L_SUCCESS
    /\ ~result.ok
    /\ result.err.field = "TX_TYPE"

\* ------------------------------------------- every codec, both directions

\* Drawn inputs are parsed, sets and single records are written and read back.
InitCodecs == Init \/ InitRoundTrip \/ InitRecord

NextCodecs == Parse \/ Write \/ DoParseOperation \/ DoWriteOperation

SpecCodecs == InitCodecs /\ [][NextCodecs]_vars

\* The identifier invariant as stated.
IdentifierInvariant(op) ==
    \/ op.tx_type = "Deposit" /\ op.from_user_id = 0
    \/ op.tx_type = "Withdrawal" /\ op.to_user_id = 0
    \/ op.tx_type = "Transfer" /\ op.from_user_id # 0 /\ op.to_user_id # 0

\* What a writer emits for the records of S alone, in any order.
EmittedFor(fmt, S) == {WriteAll(fmt, order).out : order \in Orders(S)}

\* C13: every record a successful parse_all or parse_operation returns
\* satisfies the identifier invariant, and a write given a record that violates
\* it returns InvalidField having emitted nothing of that record: what is on
\* the writer is what writing some of the other records alone emits.
C13_Bidirectional ==
    /\ (Done /\ result.ok) => \A o \in result.val : IdentifierInvariant(o)
    /\ (Returned /\ result.ok) => IdentifierInvariant(result.val.op)
    /\ (written # NoWritten /\ \E op \in operations : ~IdentifierInvariant(op)) =>
          /\ ~written.res.ok
          /\ written.res.err.kind = "InvalidField"
          /\ IF pc = "returned" THEN written.out = <<>>
             ELSE \E S \in SUBSET {op \in operations : IdentifierInvariant(op)} :
                      written.out \in EmittedFor(format, S)

\* A CSV write of a valid record and a violating one stopped at the violating
\* one after the valid row was emitted.
C13_Witness ==
    /\ Done
    /\ format = "csv"
    /\ operations = {G2, Bad3}
    /\ ~written.res.ok
    /\ written.res.err.kind = "InvalidField"
    /\ written.res.err.field = "FROM_USER_ID"
    /\ written.out = HEADER \o <<LF>> \o CsvRow(G2)

\* The first piece of the input that is not a well-formed record, if any.
FirstFaulty(c) ==
    {i \in RecordIdx(c) : c.items[i].tag # "good" /\ \A j \in 1..(i - 1) : c.items[j].tag = "good"}

\* C14 as stated: a text block that lacks a required key makes text parse_all
\* return InvalidFormat naming the first missing key, and a binary record that
\* does not start with the magic makes parse_operation return InvalidMagic.
C14_StructuralErrors ==
    /\ (Done /\ format = "txt" /\ craft # NoCraft /\ BlocksParted(format, craft)) =>
          \A i \in FirstFaulty(craft) :
              LET it == craft.items[i]
              IN  /\ it.tag = "missing" =>
                        result = Err(ErrInvalidFormat(<<"Missing ", it.field>>))
                  /\ it.tag = "missing_late" =>
                        result = Err(ErrInvalidFormat(<<"Missing ", LateMissingKey>>))
    /\ (ParsedDrawn /\ craft.items[1].tag = "magic") => result = Err(ErrInvalidMagic)

\* C14 as amended: the keys are looked up and their values parsed one key at a
\* time in the stated order, so the first fault in that order is returned: a
\* missing key as InvalidFormat naming it, unless the value of an earlier key
\* does not parse, which is returned as InvalidField of that key.
C14_FirstFaultInOrder ==
    /\ (Done /\ format = "txt" /\ craft # NoCraft /\ BlocksParted(format, craft)) =>
          \A i \in FirstFaulty(craft) :
              LET it == craft.items[i]
              IN  /\ it.tag = "missing" =>
                        result = Err(ErrInvalidFormat(<<"Missing ", it.field>>))
                  /\ it.tag = "missing_late" =>
                        /\ ~result.ok
                        /\ result.err.kind = "InvalidField"
                        /\ result.err.field = it.field
    /\ (ParsedDrawn /\ craft.items[1].tag = "magic") => result = Err(ErrInvalidMagic)

\* A block without STATUS whose TX_ID is no integer was refused for its TX_ID.
C14_Witness ==
    /\ Done
    /\ format = "txt"
    /\ craft.items = <<TxtMissingLate>>
    /\ result = Err(ErrInvalidField("TX_ID", "invalid digit found in string"))

\* ------------------------------------------- write_operation and its sizes

\* Description lengths too large to write out, as halves: around the multiples
\* of a half, and around the largest length whose record_size fits a u32.
LongLengths ==
    {[hi |-> hi, lo |-> lo] :
        hi \in {0, 1, Half - 1, Half},
        lo \in {0, 1, Half - 47, Half - 46, Half - 1}}

\* The thread panicked.
Panic == Err([kind |-> "panic", field |-> "", msg |-> <<"attempt to add with overflow">>])

\* write_operation on a valid record whose description is input bytes long, as
\* far as its two size fields: the build checks arithmetic overflow or not.
DoWriteLongDescription ==
    /\ pc = "write_long"
    /\ \E overflow_checks \in BOOLEAN :
          LET desc_len == AsU32(input)
          IN  result' = IF overflow_checks /\ RecordSizeOverflows(desc_len) THEN Panic
                        ELSE Ok([record_size |-> U32ToBeBytes(RecordSize(desc_len)),
                                 desc_len |-> U32ToBeBytes(desc_len)])
    /\ pc' = "sized"
    /\ UNCHANGED <<format, craft, operations, input, written>>

InitLong ==
    /\ pc = "write_long"
    /\ format = "bin"
    /\ craft = NoCraft
    /\ operations = {}
    /\ input \in LongLengths
    /\ written = NoWritten
    /\ result = NoResult

InitWrite == InitRecord \/ InitLong

NextWrite == DoWriteOperation \/ DoParseOperation \/ DoWriteLongDescription

SpecWrite == InitWrite /\ [][NextWrite]_vars

\* write_operation has emitted a record.
WroteRecord == craft = NoCraft /\ written # NoWritten /\ written.res.ok

\* The four bytes hold the number whose halves are hi and lo.
HoldsU32(bytes, hi, lo) ==
    /\ Len(bytes) = 4
    /\ bytes[1] * 256 + bytes[2] = hi
    /\ bytes[3] * 256 + bytes[4] = lo

\* The four bytes hold the length plus 46.
HoldsLengthPlus46(bytes, len) ==
    \E carry \in {0, 1} :
        /\ len.lo + 46 = carry * Half + (bytes[3] * 256 + bytes[4])
        /\ len.hi + carry = bytes[1] * 256 + bytes[2]

\* The layout of one record as stated, for a description of L bytes.
LaidOut(out, op) ==
    LET L == Len(AsBytes(op.description))
    IN  /\ Len(out) = 54 + L
        /\ SubSeq(out, 1, 4) = <<89, 80, 66, 78>>
        /\ HoldsU32(SubSeq(out, 5, 8), 0, 46 + L)
        /\ FromBeBytes(SubSeq(out, 9, 16)) = op.tx_id
        /\ out[17] = StatedOrdinal(op.tx_type)
        /\ FromBeBytes(SubSeq(out, 18, 25)) = op.from_user_id
        /\ FromBeBytes(SubSeq(out, 26, 33)) = op.to_user_id
        /\ I64FromBeBytes(SubSeq(out, 34, 41)) = op.amount
        /\ FromBeBytes(SubSeq(out, 42, 49)) = op.timestamp
        /\ out[50] = StatedOrdinal(op.status)
        /\ HoldsU32(SubSeq(out, 51, 54), 0, L)
        /\ SubSeq(out, 55, Len(out)) = AsBytes(op.description)

\* The largest description length whose record_size fits 32 bits: 2^32 - 47.
FitsRecordSize(len) == len.hi < Half - 1 \/ (len.hi = Half - 1 /\ len.lo <= Half - 47)

\* C15 as stated: write_operation emits 54 + L bytes laid out as magic,
\* record_size = 46 + L, the fields, desc_len = L and the description raw; and
\* for every L that fits 32 bits record_size and desc_len hold 46 + L and L.
C15_SizesAgree ==
    /\ WroteRecord => \A op \in operations : LaidOut(written.out, op)
    /\ (pc = "sized" /\ input.hi < Half) =>
          /\ result.ok
          /\ HoldsU32(result.val.desc_len, input.hi, input.lo)
          /\ HoldsLengthPlus46(result.val.record_size, input)

\* C15 as amended: the same for every L up to 2^32 - 47; for a longer L that
\* fits 32 bits the sum overflows: write_operation panics, or writes desc_len = L
\* and record_size = 46 + L - 2^32.
C15_SizesAgreeUpTo ==
    /\ WroteRecord => \A op \in operations : LaidOut(written.out, op)
    /\ (pc = "sized" /\ input.hi < Half) =>
          IF FitsRecordSize(input)
          THEN /\ result.ok
               /\ HoldsU32(result.val.desc_len, input.hi, input.lo)
               /\ HoldsLengthPlus46(result.val.record_size, input)
          ELSE \/ result = Panic
               \/ /\ result.ok
                  /\ HoldsU32(result.val.desc_len, input.hi, input.lo)
                  /\ HoldsU32(result.val.record_size, 0, input.lo + 46 - Half)

\* The sizes of a description of 2^32 - 47 bytes were written: record_size is
\* u32::MAX.
C15_Witness ==
    /\ pc = "sized"
    /\ input = [hi |-> Half - 1, lo |-> Half - 47]
    /\ result.ok
    /\ result.val.record_size = <<255, 255, 255, 255>>

\* Values for the four record_size bytes of a record.
SizeFields == {<<0, 0, 0, 0>>, <<0, 0, 0, 46>>, <<0, 0, 0, 47>>, <<0, 0, 1, 0>>, <<0, 0, 255, 255>>}

\* A record with its record_size bytes replaced.
Resized(body, sz) ==
    IF Len(body) >= 8 THEN SubSeq(body, 1, 4) \o sz \o SubSeq(body, 9, Len(body))
    ELSE body

\* The drawn stream with the record_size bytes of every record replaced.
Twin(c, sz) ==
    Render("bin", [c EXCEPT !.items =
                      [i \in 1..Len(c.items) |->
                          [c.items[i] EXCEPT !.body = Resized(c.items[i].body, sz)]]])

\* C16: parse_operation and parse_all return the same outcome, and
\* parse_operation consumes the same number of bytes, on every stream that
\* differs from the one parsed only in the record_size bytes of its records;
\* a record read ends desc_len bytes after its 54 fixed bytes.
C16_RecordSizeUnused ==
    /\ (Done /\ format = "bin" /\ craft # NoCraft) =>
          \A sz \in SizeFields : BinParseAll(Twin(craft, sz)) = result
    /\ ParsedDrawn =>
          /\ \A sz \in SizeFields : ParseOperation(Twin(craft, sz), 1) = result
          /\ result.ok => result.val.next = 55 + FromBeBytes(SubSeq(input, 51, 54))

\* A stream of two records, the first with record_size 0, was parsed into both.
C16_Witness ==
    /\ Done
    /\ format = "bin"
    /\ Len(craft.items) = 2
    /\ craft.items[1].field = "RECORD_SIZE"
    /\ SubSeq(input, 5, 8) = <<0, 0, 0, 0>>
    /\ craft.items[2] = BinGood(G1)
    /\ result = Ok({G2, G1})

\* A text input of well-formed groups of KEY: value lines was parsed.
ParsedGroups ==
    Done /\ format = "txt" /\ craft # NoCraft /\ craft.items # <<>> /\ PlainInput(craft)

\* One record per group: of the groups sharing a tx_id, the first.
OnePerGroup(c) == {FirstWithId(c, c.items[i].op.tx_id) : i \in RecordIdx(c)}

\* C17 as stated: a blank line and a comment line between two groups of
\* KEY: value lines both end the first block, so every group is parsed as a
\* record of its own.
C17_CommentSeparates ==
    ParsedGroups => result = Ok(OnePerGroup(craft))

\* C17 as amended: only a blank line ends a block. Groups with a blank line
\* between them are records of their own; groups with nothing but a comment
\* line between them are one block, in which each key keeps the value given
\* last, so that the record parsed is the last group's.
C17_BlankSeparates ==
    ParsedGroups =>
        IF craft.sep = "comment"
        THEN result = Ok({craft.items[Len(craft.items)].op})
        ELSE result = Ok(OnePerGroup(craft))

\* Two groups with different tx_ids and a comment line between them were parsed
\* into the one record of the second group.
C17_Witness ==
    /\ ParsedGroups
    /\ craft.sep = "comment"
    /\ Len(craft.items) = 2
    /\ craft.items[1].op.tx_id # craft.items[2].op.tx_id
    /\ result = Ok({craft.items[2].op})

\* The commas of a row that stand outside a quote span: those with an even
\* number of quotes before them.
SplittingCommas(row) ==
    {i \in 1..Len(row) :
        /\ row[i] = COMMA
        /\ Cardinality({j \in 1..(i - 1) : row[j] = QUOTE}) % 2 = 0}

\* The number of fields the stated split produces.
StatedFieldCount(row) == 1 + Cardinality(SplittingCommas(row))

\* The number of commas of a text.
Commas(text) == Cardinality({i \in 1..Len(text) : text[i] = COMMA})

\* C18: a row is split at the commas outside quote spans only; a non-blank row
\* yields a record exactly when that gives 8 fields, with the quoted commas
\* kept inside its last field, and otherwise parse fails with InvalidFormat
\* reporting the number of fields; blank lines between rows are skipped.
C18_CsvSplit ==
    /\ (Done /\ format = "csv" /\ Len(craft.items) = 1 /\ craft.items[1].tag = "split") =>
          LET row == craft.items[1].body
              n == StatedFieldCount(row)
          IN  IF n = 8
              THEN /\ result.ok
                   /\ Cardinality(result.val) = 1
                   /\ \A o \in result.val :
                         Commas(o.description) = Commas(craft.items[1].raw)
              ELSE /\ ~result.ok
                   /\ result.err.kind = "InvalidFormat"
                   /\ result.err.msg[Len(result.err.msg)] = ToString(n)
    /\ (/\ Done
        /\ format = "csv"
        /\ craft.header = "exact"
        /\ \A i \in 1..Len(craft.items) : craft.items[i].tag \in {"good", "blank"})
       => result = Ok({FirstWithId(craft, craft.items[i].op.tx_id) : i \in RecordIdx(craft)})

\* A row whose last field is a quoted comma was parsed into a record that
\* keeps the comma.
C18_Witness ==
    /\ Done
    /\ format = "csv"
    /\ Len(craft.items) = 1
    /\ craft.items[1].tag = "split"
    /\ craft.items[1].raw = <<QUOTE, COMMA, QUOTE>>
    /\ result = Ok({[G1 EXCEPT !.description = <<COMMA>>]})

\* A description that normalization has nothing to do to: no backslash, no
\* whitespace at either end, not wrapped in a pair of quotes.
Untouched(d) ==
    /\ \A i \in 1..Len(d) : d[i] # BACKSLASH
    /\ d # <<>> => ~IsWhitespace(d[1]) /\ ~IsWhitespace(d[Len(d)])
    /\ ~(Len(d) >= 2 /\ d[1] = QUOTE /\ d[Len(d)] = QUOTE)

\* parse_operation has returned for a record that write_operation emitted.
ReadBack == Returned /\ craft = NoCraft /\ written.res.ok

\* C19: write_operation followed by parse_operation returns the description
\* unchanged, byte for byte, when it has no backslash, no whitespace at either
\* end and no pair of quotes around it.
C19_PlainDescriptionKept ==
    ReadBack =>
        \A op \in operations :
            Untouched(op.description) =>
                /\ result.ok
                /\ result.val.op.description = op.description
                /\ AsBytes(result.val.op.description)
                      = SubSeq(written.out, 55, Len(written.out))

\* A description with a quote inside, a quote at one end and a character of two
\* bytes was written and read back.
C19_Witness ==
    /\ ReadBack
    /\ operations = {[G1 EXCEPT !.description = <<QUOTE, "a", QUOTE, CYR>>]}
    /\ result.ok
    /\ result.val.op.description = <<QUOTE, "a", QUOTE, CYR>>

\* ------------------------------------------------------- the comparer

\* What the comparer prints on its standard output.
CountMismatch(n1, n2) == [line |-> "Files differ", len1 |-> n1, len2 |-> n2, tx_id |-> 0]

Differs(tx_id) == [line |-> "differs", len1 |-> 0, len2 |-> 0, tx_id |-> tx_id]

Identical == [line |-> "identical", len1 |-> 0, len2 |-> 0, tx_id |-> 0]

\* The records of the files compared: a file is a sequence of these, and one
\* file holds a record that breaks the identifier invariant.
FileRecords == SeqsUpTo({G1, G1b, G2}, MaxRecords) \cup {<<Bad3>>}

\* The piece of a file of the format for op.
FilePiece(fmt, op) ==
    LET it == CASE fmt = "bin" -> BinGood(op)
                [] fmt = "csv" -> CsvGood(op)
                [] fmt = "txt" -> TxtGood(op)
    IN  IF Validate(op).ok THEN it ELSE [it EXCEPT !.tag = "invariant"]

\* A file of the format holding the records.
FileCraft(fmt, ops) ==
    Craft([i \in 1..Len(ops) |-> FilePiece(fmt, ops[i])],
          IF fmt = "csv" THEN "exact" ELSE "",
          IF fmt = "txt" THEN "blank" ELSE "",
          IF fmt = "bin" THEN "" ELSE "lf", 0)

\* The formats of the two files compared.
FormatPairs == {<<"bin", "bin">>, <<"bin", "csv">>, <<"csv", "txt">>, <<"txt", "bin">>}

\* What run may print for two parsed collections: sizes are compared first, then
\* the first collection is searched for a record the second has no equal of; the
\* HashSet yields the records of the difference in any order and the first one
\* yielded is printed.
Compare(operations1, operations2) ==
    IF Cardinality(operations1) # Cardinality(operations2)
    THEN {CountMismatch(Cardinality(operations1), Cardinality(operations2))}
    ELSE IF HashSetDifference(operations1, operations2) # {}
    THEN {Differs(operation.tx_id) :
              operation \in HashSetDifference(operations1, operations2)}
    ELSE {Identical}

\* The first of the two parse results that is an error, if any.
FirstErr(parsed) == IF ~parsed[1].ok THEN parsed[1] ELSE parsed[2]

\* comparer run: both files are parsed, the first error is returned, and
\* otherwise the collections are compared.
ComparerRun ==
    /\ pc = "compare"
    /\ \E parsed \in {[i \in 1..2 |-> ParseAll(format[i], input[i])]} :
          IF parsed[1].ok /\ parsed[2].ok
          THEN \E line \in Compare(parsed[1].val, parsed[2].val) : result' = Ok(line)
          ELSE result' = FirstErr(parsed)
    /\ pc' = "compared"
    /\ UNCHANGED <<format, craft, operations, input, written>>

\* In this specification format, craft and input are pairs: the first file's and
\* the second file's.
InitCompare ==
    /\ pc = "compare"
    /\ format \in FormatPairs
    /\ \E ops1 \in FileRecords, ops2 \in FileRecords :
          craft = <<FileCraft(format[1], ops1), FileCraft(format[2], ops2)>>
    /\ input = <<Render(format[1], craft[1]), Render(format[2], craft[2])>>
    /\ operations = {}
    /\ written = NoWritten
    /\ result = NoResult

NextCompare == ComparerRun

SpecCompare == InitCompare /\ [][NextCompare]_vars

\* The tx_ids of the records of a file.
TxIds(c) == {c.items[i].op.tx_id : i \in 1..Len(c.items)}

\* Both files hold well-formed records only.
BothParse == PlainInput(craft[1]) /\ PlainInput(craft[2])

\* C20: for two files that parse, the comparer prints the count mismatch when
\* the collections differ in size, otherwise the tx_id of one record of the
\* first collection whose tx_id the second lacks, otherwise the identical
\* message; it prints the identical message exactly when both files hold the
\* same set of tx_ids, whatever the other fields of their records.
C20_ComparerOutput ==
    (pc = "compared" /\ BothParse) =>
        LET ids1 == TxIds(craft[1])
            ids2 == TxIds(craft[2])
        IN  /\ result.ok
            /\ IF Cardinality(ids1) # Cardinality(ids2)
               THEN result.val = CountMismatch(Cardinality(ids1), Cardinality(ids2))
               ELSE IF ids1 \ ids2 # {}
               THEN result.val.line = "differs" /\ result.val.tx_id \in ids1 \ ids2
               ELSE result.val = Identical
            /\ result.val = Identical <=> ids1 = ids2

\* Two files whose only records share their tx_id and differ in every other
\* field were compared and reported identical.
C20_Witness ==
    /\ pc = "compared"
    /\ Len(craft[1].items) = 1
    /\ Len(craft[2].items) = 1
    /\ craft[1].items[1].op = G1
    /\ craft[2].items[1].op = G1b
    /\ result = Ok(Identical)

====
